---------------------------- MODULE Spec2Model ----------------------------
(***************************************************************************)
(* Model of fawltydeps/packages.py: the Package record, the lazily built   *)
(* LocalPackageLookup cache and resolve_dependencies.                      *)
(*                                                                         *)
(* Strings are sequences of one-character strings, so that lower() and     *)
(* replace("-", "_") are computed character by character.  Python objects  *)
(* that are shared by reference (Package objects, the cache dict) live in  *)
(* heaps and are referred to by their index.  An Optional value is a       *)
(* sequence of length 0 (None) or 1.                                       *)
(***************************************************************************)
EXTENDS Integers, Sequences, FiniteSets, TLC

VARIABLES
    \* The environment (file system), fixed for a run.
    venv_path,      \* Optional path given by the caller: <<>> is None
    pyvenv_cfg,     \* whether venv_path / "pyvenv.cfg" is a file
    dists,          \* what find_distributions() yields on the search path
    \* The LocalPackageLookup instance and the object heaps.
    _packages,      \* self._packages: Optional reference into dicts
    dicts,          \* heap of dict objects: normalized name -> Package ref
    heap,           \* heap of Package objects
    enumerations,   \* number of find_distributions() calls made so far
    pc,             \* position of the single-threaded caller
    last,           \* SpecIndex: Optional record of the last call's return
    \* resolve_dependencies
    dep_names,      \* the prefix of the input consumed so far
    ret,            \* the result dict, as a sequence of [name, package]
    notices,        \* logger.info() records emitted so far
    \* SpecPackage
    pkg,            \* the Package object under test
    \* SpecNormalize
    nameA, nameB,   \* two package names
    normA, normB,   \* Optional result of normalize_name on each
    twiceA,         \* Optional result of normalizing normA again
    lookA, lookB,   \* Optional result of lookup_package on each
    \* SpecThreads
    tpc,            \* position of each thread inside lookup_package
    tname,          \* the package_name each thread looks up
    tidx,           \* position of each thread's distribution iterator
    tpkg,           \* the Package each thread has built for the current dist
    tdict,          \* the dict reference each thread has loaded
    tres,           \* Optional return value of each thread's lookup_package
    build_done,     \* some thread has finished its build loop
    overlapped      \* two accesses overlapped before a build had finished

envVars == <<venv_path, pyvenv_cfg, dists>>
selfVars == <<_packages, dicts, heap, enumerations>>
idxVars == <<pc, last>>
resVars == <<dep_names, ret, notices>>
pkgVars == <<pkg>>
normVars == <<nameA, nameB, normA, normB, twiceA, lookA, lookB>>
thrVars == <<tpc, tname, tidx, tpkg, tdict, tres, build_done, overlapped>>
vars == <<envVars, selfVars, idxVars, resVars, pkgVars, normVars, thrVars>>

---------------------------------------------------------------------------
(* Bounds *)

MaxNameLen == 2
MaxDists == 2
MaxDeps == 3

Alphabet == {"P", "p", "-", "_"}

RECURSIVE StringsOfLen(_)
StringsOfLen(n) ==
    IF n = 0 THEN {<<>>}
    ELSE {Append(s, c) : s \in StringsOfLen(n - 1), c \in Alphabet}

Names == UNION {StringsOfLen(n) : n \in 1..MaxNameLen}

\* Import identifiers a distribution can provide.
ImportIds == {<<"p">>, <<"x">>}

\* Package names used where the whole of Names is not needed.
SampleNames == {<<"P">>, <<"p">>, <<"P", "-">>, <<"p", "_">>}

\* Names of installed distributions.
DistNames == {<<"P">>, <<"p", "_">>}

Threads == {"t1", "t2"}

---------------------------------------------------------------------------
(* class DependenciesMapping *)

IDENTITY == "identity"
LOCAL_ENV == "local_env"
DependenciesMapping == {IDENTITY, LOCAL_ENV}

---------------------------------------------------------------------------
(* Package.normalize_name: package_name.lower().replace("-", "_") *)

LowerChar(c) == IF c = "P" THEN "p" ELSE c

lower(s) == [i \in DOMAIN s |-> LowerChar(s[i])]

replace(s, old, new) == [i \in DOMAIN s |-> IF s[i] = old THEN new ELSE s[i]]

normalize_name_no_lower(package_name) == replace(package_name, "-", "_")

normalize_name(package_name) == replace(lower(package_name), "-", "_")

---------------------------------------------------------------------------
(* class Package *)

\* The empty dict.
EmptyDict == [k \in {} |-> {}]

\* dict.setdefault(key, set()).update(values)
SetDefaultUpdate(d, key, values) ==
    [k \in DOMAIN d \cup {key} |->
        IF k = key
        THEN (IF key \in DOMAIN d THEN d[key] ELSE {}) \cup values
        ELSE d[k]]

\* Faulty variant: the dataclass keeps the import_names argument it was given.
PackageInit_keep_argument(package_name, mappings, import_names) ==
    [package_name |-> package_name,
     mappings |-> mappings,
     import_names |-> import_names]

\* The generated __init__ followed by __post_init__.
PackageInit(package_name, mappings, import_names) ==
    [package_name |-> package_name,
     mappings |-> mappings,
     import_names |-> UNION {mappings[m] : m \in DOMAIN mappings}]

add_import_names(p, import_names, mapping) ==
    [p EXCEPT !.mappings = SetDefaultUpdate(@, mapping, import_names),
              !.import_names = @ \cup import_names]

\* Faulty variant: the package name is added as spelled.
add_identity_import_as_spelled(p) ==
    add_import_names(p, {p.package_name}, IDENTITY)

add_identity_import(p) ==
    add_import_names(p, {normalize_name(p.package_name)}, IDENTITY)

identity_mapping(package_name) ==
    add_identity_import(PackageInit(package_name, EmptyDict, {}))

---------------------------------------------------------------------------
(* The environment: the caller's venv_path, the marker file and the        *)
(* distributions installed on the search path.                             *)

None == <<>>
Some(x) == <<x>>

\* A distribution: its name, whether it ships a top_level.txt, the names
\* listed there, and the names inferred from its installed files.
Dists ==
    {d \in [name : DistNames,
            has_top_level : BOOLEAN,
            declared : SUBSET {<<"p">>},
            inferred : SUBSET {<<"x">>}] :
        ~d.has_top_level => d.declared = {}}

RECURSIVE SeqsOfLen(_, _)
SeqsOfLen(S, n) ==
    IF n = 0 THEN {<<>>}
    ELSE {Append(s, x) : s \in SeqsOfLen(S, n - 1), x \in S}

SeqsUpTo(S, n) == UNION {SeqsOfLen(S, k) : k \in 0..n}

Envs == SeqsUpTo(Dists, MaxDists)

\* Values of the variables a specification does not use.
IdleEnv == venv_path = None /\ pyvenv_cfg = FALSE /\ dists = <<>>
IdleSelf == _packages = None /\ dicts = <<>> /\ heap = <<>> /\ enumerations = 0
IdleIdx == pc = "idle" /\ last = None
IdleRes == dep_names = <<>> /\ ret = <<>> /\ notices = <<>>
IdlePkg == pkg = PackageInit(<<"p">>, EmptyDict, {})
IdleNorm ==
    /\ nameA = <<>> /\ nameB = <<>> /\ normA = None /\ normB = None
    /\ twiceA = None /\ lookA = None /\ lookB = None
IdleThr ==
    /\ tpc = [t \in Threads |-> "idle"]
    /\ tname = [t \in Threads |-> <<>>]
    /\ tidx = [t \in Threads |-> 0]
    /\ tpkg = [t \in Threads |-> 0]
    /\ tdict = [t \in Threads |-> 0]
    /\ tres = [t \in Threads |-> None]
    /\ build_done = FALSE
    /\ overlapped = FALSE

---------------------------------------------------------------------------
(* class LocalPackageLookup, run by one thread: every method is atomic.    *)
(* The instance and the heaps are passed and returned as one record.       *)

Self == [_packages |-> _packages, dicts |-> dicts, heap |-> heap,
         enumerations |-> enumerations]

SetSelf(s) ==
    /\ _packages' = s._packages
    /\ dicts' = s.dicts
    /\ heap' = s.heap
    /\ enumerations' = s.enumerations

\* Faulty variant: no check of the marker file.
init_raises_never(path, marker) == FALSE

\* __init__ raises ValueError.
init_raises(path, marker) == path # None /\ ~marker

_top_level_declared(dist) == dist.declared

_top_level_inferred(dist) == dist.inferred

\* Faulty variant: both sources merged.
imports_merged(dist) == _top_level_declared(dist) \cup _top_level_inferred(dist)

\* set(_top_level_declared(dist) or _top_level_inferred(dist))
imports(dist) ==
    IF _top_level_declared(dist) # {}
    THEN _top_level_declared(dist)
    ELSE _top_level_inferred(dist)

\* d[key] = value
SetItem(d, key, value) ==
    [k \in DOMAIN d \cup {key} |-> IF k = key THEN value ELSE d[k]]

\* One iteration of the loop over the distributions.
BuildOne(s, dist) ==
    LET package == PackageInit(dist.name, LOCAL_ENV :> imports(dist), {})
        h == Append(s.heap, package)
    IN  [s EXCEPT !.heap = h,
                  !.dicts[s._packages[1]] =
                      SetItem(@, normalize_name(dist.name), Len(h))]

RECURSIVE BuildLoop(_, _, _)
BuildLoop(s, ds, i) ==
    IF i > Len(ds) THEN s ELSE BuildLoop(BuildOne(s, ds[i]), ds, i + 1)

\* self._packages = {} followed by the loop.
BuildCache(s, ds) ==
    BuildLoop([s EXCEPT !._packages = Some(Len(s.dicts) + 1),
                        !.dicts = Append(@, <<>>),
                        !.enumerations = @ + 1],
              ds, 1)

\* Faulty variant: the cache is rebuilt on every access.
packages_always_build(s, ds) == BuildCache(s, ds)

\* The packages property: the instance after the access; the mapping
\* returned is the new s._packages[1].
packages(s, ds) == IF s._packages = None THEN BuildCache(s, ds) ELSE s

DictGet(d, key) == IF key \in DOMAIN d THEN Some(d[key]) ELSE None

\* lookup_package: the instance afterwards and the Optional Package.
lookup_package(s, ds, package_name) ==
    LET s2 == packages(s, ds)
    IN  [self |-> s2,
         result |-> DictGet(s2.dicts[s2._packages[1]],
                            normalize_name(package_name))]

\* The cache mapping of a built instance.
Cache == dicts[_packages[1]]

---------------------------------------------------------------------------
(* SpecIndex: one LocalPackageLookup used by one thread.                   *)

InitEnv ==
    /\ venv_path \in {None, Some("venv")}
    /\ pyvenv_cfg \in BOOLEAN
    /\ venv_path = None => pyvenv_cfg = FALSE
    /\ dists \in Envs

InitIndex ==
    /\ InitEnv /\ IdleSelf
    /\ pc = "start" /\ last = None
    /\ IdleRes /\ IdlePkg /\ IdleNorm /\ IdleThr

Construct ==
    /\ pc = "start"
    /\ pc' = IF init_raises(venv_path, pyvenv_cfg) THEN "raised" ELSE "ready"
    /\ UNCHANGED <<envVars, selfVars, last, resVars, pkgVars, normVars, thrVars>>

AccessPackages ==
    /\ pc = "ready"
    /\ LET s == packages(Self, dists)
       IN  /\ SetSelf(s)
           /\ last' = Some([op |-> "packages", name |-> <<>>,
                            built_now |-> _packages = None,
                            mapping |-> s._packages[1], result |-> None])
    /\ UNCHANGED <<envVars, pc, resVars, pkgVars, normVars, thrVars>>

LookupPackage ==
    /\ pc = "ready"
    /\ \E name \in SampleNames :
         LET r == lookup_package(Self, dists, name)
         IN  /\ SetSelf(r.self)
             /\ last' = Some([op |-> "lookup_package", name |-> name,
                              built_now |-> _packages = None,
                              mapping |-> r.self._packages[1],
                              result |-> r.result])
    /\ UNCHANGED <<envVars, pc, resVars, pkgVars, normVars, thrVars>>

NextIndex == Construct \/ AccessPackages \/ LookupPackage

SpecIndex == InitIndex /\ [][NextIndex]_vars

\* The distribution enumerated last among those whose name normalizes to k.
LastDist(k) ==
    LET I == {i \in DOMAIN dists : normalize_name(dists[i].name) = k}
    IN  dists[CHOOSE i \in I : \A j \in I : j <= i]

\* C4: within one thread an instance enumerates the distributions at most
\* once: every access returns the mapping built by the first one, and once
\* built neither the mapping nor the records it holds change.
C4_BuildsAtMostOnce ==
    /\ [](/\ enumerations <= 1
          /\ last # None =>
                /\ _packages = Some(last[1].mapping)
                /\ enumerations = 1)
    /\ [][_packages # None =>
            /\ _packages' = _packages
            /\ dicts' = dicts
            /\ heap' = heap
            /\ enumerations' = enumerations]_vars

\* A lookup that missed, served from a non-empty cache that an earlier
\* access had built.
C4_Witness ==
    /\ last # None
    /\ last[1].op = "lookup_package"
    /\ ~last[1].built_now
    /\ last[1].result = None
    /\ Cache # <<>>

\* C7 as stated: the stored identifiers are the declared list whenever a
\* declared list exists, and the inferred ones only when none exists.
C7_ExplicitWheneverItExists ==
    _packages # None =>
        \A k \in DOMAIN Cache :
            heap[Cache[k]].import_names =
                IF LastDist(k).has_top_level
                THEN LastDist(k).declared
                ELSE LastDist(k).inferred

\* C7 (amended): the stored identifiers of a cached record are exactly the
\* declared list when that list is non-empty, and exactly the inferred
\* identifiers when the declared list is absent or empty; never the merge.
C7_ExplicitWhenNonEmpty ==
    _packages # None =>
        \A k \in DOMAIN Cache :
            LET d == LastDist(k)
                p == heap[Cache[k]]
                X == IF d.declared # {} THEN d.declared ELSE d.inferred
            IN  /\ p.package_name = d.name
                /\ DOMAIN p.mappings = {LOCAL_ENV}
                /\ p.mappings[LOCAL_ENV] = X
                /\ p.import_names = X

\* A cached record of a distribution with both a declared and an inferred
\* identifier, holding only the declared one.
C7_Witness ==
    /\ _packages # None
    /\ \E k \in DOMAIN Cache :
            /\ LastDist(k).declared = {<<"p">>}
            /\ LastDist(k).inferred = {<<"x">>}
            /\ heap[Cache[k]].import_names = {<<"p">>}

---------------------------------------------------------------------------
(* SpecPackage: one Package object, constructed with any arguments and     *)
(* then mutated through its public methods.                                *)

InitialMappings ==
    UNION {[D -> SUBSET ImportIds] : D \in SUBSET DependenciesMapping}

InitPackage ==
    /\ \E n \in SampleNames, m \in InitialMappings, i \in SUBSET ImportIds :
            pkg = PackageInit(n, m, i)
    /\ IdleEnv /\ IdleSelf /\ IdleIdx /\ IdleRes /\ IdleNorm /\ IdleThr

AddImportNames ==
    /\ \E names \in SUBSET ImportIds, mapping \in DependenciesMapping :
            pkg' = add_import_names(pkg, names, mapping)
    /\ UNCHANGED <<envVars, selfVars, idxVars, resVars, normVars, thrVars>>

AddIdentityImport ==
    /\ pkg' = add_identity_import(pkg)
    /\ UNCHANGED <<envVars, selfVars, idxVars, resVars, normVars, thrVars>>

NextPackage == AddImportNames \/ AddIdentityImport

SpecPackage == InitPackage /\ [][NextPackage]_vars

\* C3: in every reachable state of a Package, import_names equals the union
\* of all the sets in mappings.
C3_ImportNamesIsUnion ==
    pkg.import_names = UNION {pkg.mappings[m] : m \in DOMAIN pkg.mappings}

\* A Package to which names of both provenances have been added, the
\* identity name by add_identity_import.
C3_Witness ==
    /\ pkg.package_name = <<"P", "-">>
    /\ DOMAIN pkg.mappings = DependenciesMapping
    /\ pkg.mappings[LOCAL_ENV] = ImportIds
    /\ pkg.mappings[IDENTITY] = {<<"p", "_">>, <<"x">>}
    /\ pkg.import_names = {<<"p">>, <<"x">>, <<"p", "_">>}

---------------------------------------------------------------------------
(* SpecNormalize: normalize_name applied to two names and to its own       *)
(* result, and both names looked up in one ambient LocalPackageLookup.     *)

NormDists ==
    {d \in Dists : d.has_top_level /\ d.declared # {} /\ d.inferred = {}}

InitNormalize ==
    /\ nameA \in Names /\ nameB \in Names
    /\ normA = None /\ normB = None /\ twiceA = None
    /\ lookA = None /\ lookB = None
    /\ venv_path = None /\ pyvenv_cfg = FALSE
    /\ dists \in SeqsUpTo(NormDists, 1)
    /\ IdleSelf
    /\ pc = "ready" /\ last = None
    /\ IdleRes /\ IdlePkg /\ IdleThr

Normalize ==
    /\ normA = None
    /\ normA' = Some(normalize_name(nameA))
    /\ normB' = Some(normalize_name(nameB))
    /\ UNCHANGED <<nameA, nameB, twiceA, lookA, lookB>>
    /\ UNCHANGED <<envVars, selfVars, idxVars, resVars, pkgVars, thrVars>>

NormalizeAgain ==
    /\ normA # None /\ twiceA = None
    /\ twiceA' = Some(normalize_name(normA[1]))
    /\ UNCHANGED <<nameA, nameB, normA, normB, lookA, lookB>>
    /\ UNCHANGED <<envVars, selfVars, idxVars, resVars, pkgVars, thrVars>>

LookupA ==
    /\ lookA = None
    /\ LET r == lookup_package(Self, dists, nameA)
       IN  SetSelf(r.self) /\ lookA' = Some(r.result)
    /\ UNCHANGED <<nameA, nameB, normA, normB, twiceA, lookB>>
    /\ UNCHANGED <<envVars, idxVars, resVars, pkgVars, thrVars>>

LookupB ==
    /\ lookB = None
    /\ LET r == lookup_package(Self, dists, nameB)
       IN  SetSelf(r.self) /\ lookB' = Some(r.result)
    /\ UNCHANGED <<nameA, nameB, normA, normB, twiceA, lookA>>
    /\ UNCHANGED <<envVars, idxVars, resVars, pkgVars, thrVars>>

NextNormalize == Normalize \/ NormalizeAgain \/ LookupA \/ LookupB

SpecNormalize == InitNormalize /\ [][NextNormalize]_vars

\* Two spellings that differ only in letter case or in hyphen versus
\* underscore.
SameUpToCaseAndSeparator(a, b) ==
    /\ Len(a) = Len(b)
    /\ \A i \in DOMAIN a :
        \/ a[i] = b[i]
        \/ {a[i], b[i]} = {"P", "p"}
        \/ {a[i], b[i]} = {"-", "_"}

\* C8: normalize_name is idempotent, two spellings that differ only in case
\* or in hyphen versus underscore normalize to the same string, and
\* lookup_package gives the same result for both.
C8_NormalizeCanonical ==
    /\ twiceA # None => twiceA = normA
    /\ (normA # None /\ nameA = <<"P", "-">>) => normA = Some(<<"p", "_">>)
    /\ (normA # None /\ SameUpToCaseAndSeparator(nameA, nameB)) =>
            normA = normB
    /\ (lookA # None /\ lookB # None
            /\ SameUpToCaseAndSeparator(nameA, nameB)) => lookA = lookB

\* "P-" and "p_" normalized (the first twice) and both found in the index.
C8_Witness ==
    /\ nameA = <<"P", "-">> /\ nameB = <<"p", "_">>
    /\ twiceA = Some(<<"p", "_">>)
    /\ normB = Some(<<"p", "_">>)
    /\ lookA # None /\ lookA[1] # None /\ lookB = lookA

---------------------------------------------------------------------------
(* resolve_dependencies, run by one thread.  The input is consumed one     *)
(* name at a time; dep_names records the prefix consumed so far.           *)

Keys(r) == {r[i].name : i \in DOMAIN r}

Resolver == [self |-> Self, ret |-> ret, notices |-> notices]

\* Faulty variant: a name is skipped when a spelling with the same
\* normalized form has been resolved.
resolve_name_by_normalized(st, ds, name) ==
    IF normalize_name(name) \in {normalize_name(k) : k \in Keys(st.ret)}
    THEN st
    ELSE LET r == lookup_package(st.self, ds, name)
             package == identity_mapping(name)
             h == Append(r.self.heap, package)
         IN  IF r.result = None
             THEN [self |-> [r.self EXCEPT !.heap = h],
                   ret |-> Append(st.ret,
                                  [name |-> name, package |-> Len(h)]),
                   notices |-> Append(st.notices,
                                      [name |-> name,
                                       import_names |-> package.import_names])]
             ELSE [self |-> r.self,
                   ret |-> Append(st.ret,
                                  [name |-> name, package |-> r.result[1]]),
                   notices |-> st.notices]

\* Faulty variant: the fabricated record is also stored in the index.
resolve_name_caching_fallback(st, ds, name) ==
    IF name \in Keys(st.ret)
    THEN st
    ELSE LET r == lookup_package(st.self, ds, name)
             package == identity_mapping(name)
             h == Append(r.self.heap, package)
         IN  IF r.result = None
             THEN [self |-> [r.self EXCEPT
                                !.heap = h,
                                !.dicts[r.self._packages[1]] =
                                    SetItem(@, normalize_name(name), Len(h))],
                   ret |-> Append(st.ret,
                                  [name |-> name, package |-> Len(h)]),
                   notices |-> Append(st.notices,
                                      [name |-> name,
                                       import_names |-> package.import_names])]
             ELSE [self |-> r.self,
                   ret |-> Append(st.ret,
                                  [name |-> name, package |-> r.result[1]]),
                   notices |-> st.notices]

\* The body of the loop for one name.
resolve_name(st, ds, name) ==
    IF name \in Keys(st.ret)
    THEN st
    ELSE LET r == lookup_package(st.self, ds, name)
             package == identity_mapping(name)
             h == Append(r.self.heap, package)
         IN  IF r.result = None
             THEN [self |-> [r.self EXCEPT !.heap = h],
                   ret |-> Append(st.ret,
                                  [name |-> name, package |-> Len(h)]),
                   notices |-> Append(st.notices,
                                      [name |-> name,
                                       import_names |-> package.import_names])]
             ELSE [self |-> r.self,
                   ret |-> Append(st.ret,
                                  [name |-> name, package |-> r.result[1]]),
                   notices |-> st.notices]

\* resolve_dependencies never reads whether a top_level.txt exists, only the
\* list declared in it: one representative per declared list is enough.
ResolveDists == {d \in Dists : d.has_top_level = (d.declared # {})}

InitResolve ==
    /\ InitEnv /\ IdleSelf
    /\ dists \in SeqsUpTo(ResolveDists, MaxDists)
    /\ pc = "start" /\ last = None
    /\ IdleRes /\ IdlePkg /\ IdleNorm /\ IdleThr

\* ret = {} and the construction of the LocalPackageLookup.
ResolveStart ==
    /\ pc = "start"
    /\ pc' = IF init_raises(venv_path, pyvenv_cfg) THEN "raised" ELSE "loop"
    /\ UNCHANGED <<envVars, selfVars, last, resVars, pkgVars, normVars, thrVars>>

ResolveName ==
    /\ pc = "loop"
    /\ Len(dep_names) < MaxDeps
    /\ \E name \in SampleNames :
         LET st == resolve_name(Resolver, dists, name)
         IN  /\ dep_names' = Append(dep_names, name)
             /\ SetSelf(st.self)
             /\ ret' = st.ret
             /\ notices' = st.notices
    /\ UNCHANGED <<envVars, idxVars, pkgVars, normVars, thrVars>>

ResolveReturn ==
    /\ pc = "loop"
    /\ pc' = "done"
    /\ UNCHANGED <<envVars, selfVars, last, resVars, pkgVars, normVars, thrVars>>

NextResolve == ResolveStart \/ ResolveName \/ ResolveReturn

SpecResolve == InitResolve /\ [][NextResolve]_vars

\* The distinct elements of a sequence, each at its first occurrence.
RECURSIVE FirstSeen(_)
FirstSeen(q) ==
    IF q = <<>> THEN <<>>
    ELSE LET front == FirstSeen(SubSeq(q, 1, Len(q) - 1))
             x == q[Len(q)]
         IN  IF \E i \in DOMAIN front : front[i] = x
             THEN front
             ELSE Append(front, x)

KeySeq(r) == [i \in DOMAIN r |-> r[i].name]

Range(f) == {f[x] : x \in DOMAIN f}

IsMiss(name) == normalize_name(name) \notin DOMAIN Cache

C2_ZeroImportsNeverCached ==
    _packages # None =>
        /\ \A k \in DOMAIN Cache : heap[Cache[k]].import_names # {}
        /\ \A i \in DOMAIN ret : heap[ret[i].package].import_names # {}

\* C5: with an explicit path whose root lacks pyvenv.cfg the construction
\* raises before anything is enumerated, looked up, resolved or logged; with
\* no path the construction never raises.
C5_InvalidEnvironmentRaisesFirst ==
    /\ (venv_path # None /\ ~pyvenv_cfg) =>
            /\ pc \in {"start", "raised"}
            /\ enumerations = 0
            /\ _packages = None
            /\ dep_names = <<>>
            /\ ret = <<>>
            /\ notices = <<>>
            /\ heap = <<>>
    /\ venv_path = None => pc # "raised"

\* resolve_dependencies has raised.
C5_Witness ==
    /\ pc = "raised"
    /\ venv_path # None /\ ~pyvenv_cfg
    /\ dists # <<>>

\* C6: a declared name with no record in the index resolves, without
\* raising, to a fabricated record named by the declared spelling whose only
\* provenance is the identity mapping and whose import_names is
\* {normalize_name(name)}; one notice is emitted per such fallback; every
\* key of the result maps to a record.
C6_MissYieldsIdentityRecord ==
    /\ pc = "raised" => init_raises(venv_path, pyvenv_cfg)
    /\ \A i \in DOMAIN ret : ret[i].package \in DOMAIN heap
    /\ ret # <<>> =>
        /\ _packages # None
        /\ \A i \in DOMAIN ret :
            LET name == ret[i].name
                p == heap[ret[i].package]
            IN  IsMiss(name) =>
                    /\ p.package_name = name
                    /\ DOMAIN p.mappings = {IDENTITY}
                    /\ p.mappings[IDENTITY] = {normalize_name(name)}
                    /\ p.import_names = {normalize_name(name)}
                    /\ name = <<"P", "-">> => p.import_names = {<<"p", "_">>}
                    /\ Cardinality({n \in DOMAIN notices :
                                        notices[n].name = name}) = 1
        /\ Len(notices) =
                Cardinality({i \in DOMAIN ret : IsMiss(ret[i].name)})
        /\ \A n \in DOMAIN notices :
                /\ IsMiss(notices[n].name)
                /\ notices[n].import_names =
                        {normalize_name(notices[n].name)}

\* "P-" resolved by fallback to the import name "p_", with its notice.
C6_Witness ==
    /\ _packages # None
    /\ \E i \in DOMAIN ret :
        /\ ret[i].name = <<"P", "-">>
        /\ IsMiss(ret[i].name)
        /\ heap[ret[i].package].import_names = {<<"p", "_">>}
    /\ Len(notices) = 1

\* C9: the resolver never changes the index: once built, the cache and every
\* existing record stay as they are, entries of the result are never changed
\* by later names, a hit entry is the cache's own record, and a fabricated
\* record is not in the cache.
C9_ResolverLeavesIndexAlone ==
    [][/\ \A i \in DOMAIN heap : i \in DOMAIN heap' /\ heap'[i] = heap[i]
       /\ \A i \in DOMAIN ret : i \in DOMAIN ret' /\ ret'[i] = ret[i]
       /\ _packages # None => (_packages' = _packages /\ dicts' = dicts)
       /\ _packages' # None =>
            \A i \in DOMAIN ret' :
                LET key == normalize_name(ret'[i].name)
                    cache == dicts'[_packages'[1]]
                IN  IF key \in DOMAIN cache
                    THEN ret'[i].package = cache[key]
                    ELSE ret'[i].package \notin Range(cache)]_vars

\* A result holding a hit followed by a fabricated record, with a third name
\* consumed after them.
C9_Witness ==
    /\ _packages # None
    /\ Len(dep_names) = 3
    /\ Len(ret) >= 2
    /\ ~IsMiss(ret[1].name)
    /\ IsMiss(ret[2].name)
    /\ Len(notices) >= 1

---------------------------------------------------------------------------
(* SpecThreads: two threads call lookup_package on one fresh ambient       *)
(* instance with no lock.  A thread can be preempted between any two       *)
(* accesses to the shared instance, so each such access is a step.         *)

InitThreads ==
    /\ venv_path = None /\ pyvenv_cfg = FALSE
    /\ dists \in SeqsUpTo(NormDists, MaxDists)
    /\ IdleSelf /\ IdleIdx /\ IdleRes /\ IdlePkg /\ IdleNorm /\ IdleThr

Inside(t) == tpc[t] \notin {"idle", "done"}

\* lookup_package(package_name) is called.
ThreadCall(t) ==
    /\ tpc[t] = "idle"
    /\ \E name \in SampleNames : tname' = [tname EXCEPT ![t] = name]
    /\ tpc' = [tpc EXCEPT ![t] = "test"]
    /\ overlapped' =
          (overlapped \/ (~build_done /\ \E u \in Threads \ {t} : Inside(u)))
    /\ UNCHANGED <<tidx, tpkg, tdict, tres, build_done>>
    /\ UNCHANGED <<envVars, selfVars, idxVars, resVars, pkgVars, normVars>>

\* if self._packages is None
ThreadTest(t) ==
    /\ tpc[t] = "test"
    /\ tpc' = [tpc EXCEPT ![t] = IF _packages = None THEN "create" ELSE "return"]
    /\ UNCHANGED <<tname, tidx, tpkg, tdict, tres, build_done, overlapped>>
    /\ UNCHANGED <<envVars, selfVars, idxVars, resVars, pkgVars, normVars>>

\* self._packages = {} and the call of find_distributions
ThreadCreate(t) ==
    /\ tpc[t] = "create"
    /\ _packages' = Some(Len(dicts) + 1)
    /\ dicts' = Append(dicts, <<>>)
    /\ enumerations' = enumerations + 1
    /\ tidx' = [tidx EXCEPT ![t] = 1]
    /\ tpc' = [tpc EXCEPT ![t] = "iter"]
    /\ UNCHANGED <<heap, tname, tpkg, tdict, tres, build_done, overlapped>>
    /\ UNCHANGED <<envVars, idxVars, resVars, pkgVars, normVars>>

\* Faulty variant: the loop ends one distribution early.
LoopExhausted_early(t) == tidx[t] >= Len(dists)

\* The iterator over the distributions has nothing left.
LoopExhausted(t) == tidx[t] > Len(dists)

\* The next distribution is fetched, its Package built and self._packages
\* loaded for the assignment; or the loop ends.
ThreadIter(t) ==
    /\ tpc[t] = "iter"
    /\ IF LoopExhausted(t)
       THEN /\ tpc' = [tpc EXCEPT ![t] = "return"]
            /\ build_done' = TRUE
            /\ UNCHANGED <<heap, tpkg, tdict>>
       ELSE /\ heap' = Append(heap,
                    PackageInit(dists[tidx[t]].name,
                                LOCAL_ENV :> imports(dists[tidx[t]]), {}))
            /\ tpkg' = [tpkg EXCEPT ![t] = Len(heap) + 1]
            /\ tdict' = [tdict EXCEPT ![t] = _packages[1]]
            /\ tpc' = [tpc EXCEPT ![t] = "store"]
            /\ UNCHANGED build_done
    /\ UNCHANGED <<_packages, dicts, enumerations>>
    /\ UNCHANGED <<tname, tidx, tres, overlapped>>
    /\ UNCHANGED <<envVars, idxVars, resVars, pkgVars, normVars>>

\* The assignment into the loaded dict.
ThreadStore(t) ==
    /\ tpc[t] = "store"
    /\ dicts' = [dicts EXCEPT ![tdict[t]] =
                    SetItem(@, normalize_name(dists[tidx[t]].name), tpkg[t])]
    /\ tidx' = [tidx EXCEPT ![t] = @ + 1]
    /\ tpc' = [tpc EXCEPT ![t] = "iter"]
    /\ UNCHANGED <<_packages, heap, enumerations>>
    /\ UNCHANGED <<tname, tpkg, tdict, tres, build_done, overlapped>>
    /\ UNCHANGED <<envVars, idxVars, resVars, pkgVars, normVars>>

\* return self._packages
ThreadReturn(t) ==
    /\ tpc[t] = "return"
    /\ tdict' = [tdict EXCEPT ![t] = _packages[1]]
    /\ tpc' = [tpc EXCEPT ![t] = "get"]
    /\ UNCHANGED <<tname, tidx, tpkg, tres, build_done, overlapped>>
    /\ UNCHANGED <<envVars, selfVars, idxVars, resVars, pkgVars, normVars>>

\* .get(Package.normalize_name(package_name)) on the returned dict
ThreadGet(t) ==
    /\ tpc[t] = "get"
    /\ tres' = [tres EXCEPT ![t] =
                    Some(DictGet(dicts[tdict[t]], normalize_name(tname[t])))]
    /\ tpc' = [tpc EXCEPT ![t] = "done"]
    /\ UNCHANGED <<tname, tidx, tpkg, tdict, build_done, overlapped>>
    /\ UNCHANGED <<envVars, selfVars, idxVars, resVars, pkgVars, normVars>>

NextThreads ==
    \E t \in Threads :
        \/ ThreadCall(t)
        \/ ThreadTest(t)
        \/ ThreadCreate(t)
        \/ ThreadIter(t)
        \/ ThreadStore(t)
        \/ ThreadReturn(t)
        \/ ThreadGet(t)

SpecThreads == InitThreads /\ [][NextThreads]_vars

\* Some discovered distribution's name normalizes to the same string as name.
Installed(name) ==
    \E i \in DOMAIN dists : SameUpToCaseAndSeparator(dists[i].name, name)

\* C10 as stated: a lookup that has returned reports absent only for a name
\* that no discovered distribution normalizes to, also when two threads
\* interleave on a fresh instance.
C10_NeverPartial ==
    \A t \in Threads :
        (tpc[t] = "done" /\ tres[t] = Some(None)) => ~Installed(tname[t])

\* C10 (amended): when no access by another thread overlapped the first
\* build, a lookup that has returned reports absent only for a name that no
\* discovered distribution normalizes to.
C10_NeverPartialWhenSerialized ==
    ~overlapped =>
        \A t \in Threads :
            (tpc[t] = "done" /\ tres[t] = Some(None)) => ~Installed(tname[t])

\* Both threads have returned without overlapping the build: one found an
\* installed distribution, the other missed one that is not installed.
C10_Witness ==
    /\ ~overlapped
    /\ Len(dists) = 2
    /\ tpc["t1"] = "done" /\ tpc["t2"] = "done"
    /\ tres["t1"] # Some(None) /\ Installed(tname["t1"])
    /\ tres["t2"] = Some(None)
    /\ enumerations = 1

=============================================================================
